---------------------------- MODULE Spec2Model ----------------------------
(***************************************************************************)
(* The upload-quota metering of TransLearn LMS: the SQL functions of       *)
(* database/schema.sql (reset_monthly_upload_counts, check_upload_limit,   *)
(* increment_upload_count) over the table user_upload_counts, and the      *)
(* upload endpoint of backend/src/index.js.                                *)
(*                                                                         *)
(* Each call runs on its own database connection (a process of Procs).     *)
(* PostgreSQL runs the functions under READ COMMITTED: every SQL statement *)
(* of a function is one atomic step that sees what was committed before    *)
(* it, and other calls may commit between two statements of one call.      *)
(* CURRENT_DATE is the start time of the call's transaction, so a call     *)
(* uses one month_year throughout.                                         *)
(***************************************************************************)
EXTENDS Integers, FiniteSets, Sequences, TLC

\* ---------------------------------------------------------------- bounds
AllUsers == {"u1", "u2"}
Procs == {"p1", "p2"}
\* Months the clock runs through (month_year 'YYYY-MM', as an index).
MaxPeriod == 2
\* A row without a limit is incremented without end: calls start on it only
\* while its upload_count is below this.
MaxCount == 2
\* increment_upload_count calls per user and month of a sequential run.
MaxCalls == 4
\* Rows of resources (all teachers together) the model stores.
MaxResources == 6
\* Rows of resources stored while the whole backend is run.
MaxBackendUploads == 1
\* Rows of subscription_plans the webhook inserts for one transaction.
MaxDeliveries == 2
\* The users whose payments the provider reports while the whole backend is run.
Payers == {"u1"}

Periods == 1..MaxPeriod

\* ------------------------------------------------------------ SQL values
\* SQL NULL of an INTEGER column or variable.
NULL == -1

\* A comparison is TRUE only when both sides are not NULL; NULL (unknown)
\* takes the ELSE branch of CASE WHEN and of the PL/pgSQL IF.
SqlLt(a, b) == a # NULL /\ b # NULL /\ a < b
SqlGe(a, b) == a # NULL /\ b # NULL /\ a >= b

\* COALESCE(a, d)
Coalesce(a, d) == IF a = NULL THEN d ELSE a

\* a - b, NULL when either side is.
SqlMinus(a, b) == IF a = NULL \/ b = NULL THEN NULL ELSE a - b

\* GREATEST(a, b): NULL arguments are ignored.
Greatest(a, b) ==
    IF a = NULL THEN b
    ELSE IF b = NULL THEN a
    ELSE IF a >= b THEN a ELSE b

\* ----------------------------------------------------------- plan catalog
\* PlanLimit as it would be were the CASE written without its ELSE arm.
PlanLimitNoElse(plan) ==
    CASE plan = "free" -> 3
      [] plan = "basic" -> 15
      [] plan = "premium" -> 50
      [] plan = "enterprise" -> 200
      [] OTHER -> NULL

\* The CASE over users.subscription_plan of reset_monthly_upload_counts.
PlanLimit(plan) ==
    CASE plan = "free" -> 3
      [] plan = "basic" -> 15
      [] plan = "premium" -> 50
      [] plan = "enterprise" -> 200
      [] OTHER -> 3

\* The plans the users of the model move between.
ModelPlans == {"free", "basic"}

\* users.subscription_plan IS NULL: the column is nullable, and no WHEN of the
\* CASE is true of it.
NullPlan == "<null>"

\* The values of users.subscription_plan the catalog is tried on.
PlanNames == {"free", "basic", "premium", "enterprise", "bogus-plan", "", NullPlan}

VARIABLES
    users,               \* the table users: the ids registered
    subscription_plan,   \* users.subscription_plan, per user
    today,               \* TO_CHAR(CURRENT_DATE, 'YYYY-MM') of the clock
    user_upload_counts,  \* the table: a set of rows
    resources,           \* the table, as rows per (teacher_id, month created)
    subscription_plans,  \* the table: user_id, expires_at, payment_transaction_id
                         \* and id of its rows, all of status 'active'
    auth_credentials,    \* the table: the user_id of its rows
    payment_transactions, \* the table: transaction_id, user_id, status per row
    resource_purchases,  \* the table: buyer_id, resource_id, transaction_id per row
    pc,                  \* per connection: the statement it is at
    arg,                 \* per connection: user_id_param / teacher_id
    month,               \* per connection: month_year of its transaction
    current_count,       \* increment_upload_count: DECLARE current_count
    upload_limit,        \* increment_upload_count: DECLARE upload_limit
    new_rows,            \* reset_monthly_upload_counts: the rows its SELECT gave
    c,                   \* upload: countRs.rows[0].c
    ret,                 \* per connection: what the finished call returned
    decision,            \* per connection: the row check_upload_limit returned
    tc_log,              \* history: per user, what its increment_upload_count
                         \* calls of the month returned, in order
    last_check,          \* history: per user, the row check_upload_limit last
                         \* returned since the month began and since the last
                         \* increment_upload_count wrote for the user
    request              \* history: per connection, the webhook request it
                         \* is answering

vars == <<users, subscription_plan, today, user_upload_counts, resources,
          subscription_plans, auth_credentials, payment_transactions,
          resource_purchases, pc, arg, month, current_count, upload_limit,
          new_rows, c, ret, decision, tc_log, last_check, request>>

\* The tables the quota functions never read.
billing == <<auth_credentials, payment_transactions, resource_purchases>>

db == <<users, subscription_plan, today, user_upload_counts, resources,
        subscription_plans, billing>>
locals == <<current_count, upload_limit, new_rows, c, decision>>
history == <<tc_log, last_check, request>>

\* ------------------------------------------------------ user_upload_counts
\* The rows of (user, month): UNIQUE(user_id, month_year) keeps them to one.
RowsOf(u, m) == {r \in user_upload_counts : r.user_id = u /\ r.month_year = m}

HasRow(u, m) == RowsOf(u, m) # {}

TheRow(u, m) == CHOOSE r \in RowsOf(u, m) : TRUE

\* A LEFT JOIN column: the row's value, NULL when no row joins.
JoinCount(u, m) == IF HasRow(u, m) THEN TheRow(u, m).upload_count ELSE NULL
JoinLimit(u, m) == IF HasRow(u, m) THEN TheRow(u, m).upload_limit ELSE NULL

NewRow(u, m, cnt, lim) ==
    [user_id |-> u, month_year |-> m, upload_count |-> cnt, upload_limit |-> lim]


\* ---------------------------------------------------------------- Init
NoDecision ==
    [can_upload |-> FALSE, current_uploads |-> NULL, upload_limit |-> NULL,
     remaining_uploads |-> NULL]

\* No webhook request is being answered: nothing was read ("-").
NoRequest ==
    [secret |-> "-", header |-> "-", ids |-> "-", user_id |-> "-",
     transaction_id |-> "-", status |-> "-", purchase_type |-> "-"]

\* The state after the schema is installed and the users of `registered` have
\* signed up: the migration sets every subscription_plan to 'free'.
InitWith(registered) ==
    /\ users = registered
    /\ subscription_plan = [u \in AllUsers |-> "free"]
    /\ today = 1
    /\ user_upload_counts = {}
    /\ resources = [u \in AllUsers |-> [m \in Periods |-> 0]]
    /\ subscription_plans = {}
    /\ auth_credentials = registered
    /\ payment_transactions = {}
    /\ resource_purchases = {}
    /\ pc = [p \in Procs |-> "idle"]
    /\ arg = [p \in Procs |-> "u1"]
    /\ month = [p \in Procs |-> 1]
    /\ current_count = [p \in Procs |-> NULL]
    /\ upload_limit = [p \in Procs |-> NULL]
    /\ new_rows = [p \in Procs |-> {}]
    /\ c = [p \in Procs |-> 0]
    /\ ret = [p \in Procs |-> ""]
    /\ decision = [p \in Procs |-> NoDecision]
    /\ tc_log = [u \in AllUsers |-> <<>>]
    /\ last_check = [u \in AllUsers |-> NoDecision]
    /\ request = [p \in Procs |-> NoRequest]

Init == InitWith({"u1"})

\* The call on p returns `result`.
Finish(p, result) ==
    /\ pc' = [pc EXCEPT ![p] = "done"]
    /\ ret' = [ret EXCEPT ![p] = result]

\* ------------------------------------------------- increment_upload_count
\* OverLimit as it would be with > for >=.
PastLimit(count, limit) == count # NULL /\ limit # NULL /\ count > limit

\* IF current_count >= upload_limit THEN RETURN FALSE
OverLimit(count, limit) == SqlGe(count, limit)

\* InsertOrIncrement as it would be if the conflict were on user_id alone:
\* every row of the user is incremented.
InsertOrIncrementAll(u, m, lim) ==
    IF \E r \in user_upload_counts : r.user_id = u
    THEN {IF r.user_id = u THEN [r EXCEPT !.upload_count = @ + 1] ELSE r :
             r \in user_upload_counts}
    ELSE user_upload_counts \cup {NewRow(u, m, 1, lim)}

\* InsertOrIncrement as it would be with DO UPDATE SET upload_count =
\* EXCLUDED.upload_count.
InsertOrReplace(u, m, lim) ==
    (user_upload_counts \ RowsOf(u, m)) \cup
        {NewRow(u, m, 1, IF HasRow(u, m) THEN TheRow(u, m).upload_limit ELSE lim)}

\* InsertOrIncrement as it would be if DO UPDATE also set upload_limit =
\* EXCLUDED.upload_limit.
InsertOrRefresh(u, m, lim) ==
    IF HasRow(u, m)
    THEN (user_upload_counts \ RowsOf(u, m))
         \cup {[r EXCEPT !.upload_count = @ + 1, !.upload_limit = lim] : r \in RowsOf(u, m)}
    ELSE user_upload_counts \cup {NewRow(u, m, 1, lim)}

\* INSERT ... VALUES (u, m, 1, lim) ON CONFLICT (user_id, month_year)
\* DO UPDATE SET upload_count = user_upload_counts.upload_count + 1
InsertOrIncrement(u, m, lim) ==
    IF HasRow(u, m)
    THEN (user_upload_counts \ RowsOf(u, m))
         \cup {[r EXCEPT !.upload_count = @ + 1] : r \in RowsOf(u, m)}
    ELSE user_upload_counts \cup {NewRow(u, m, 1, lim)}

\* The call starts and runs its SELECT ... INTO current_count, upload_limit
\* and the IF on them.
IncrementSelect(p, u) ==
    /\ pc[p] = "idle"
    /\ arg' = [arg EXCEPT ![p] = u]
    /\ month' = [month EXCEPT ![p] = today]
    /\ current_count' = [current_count EXCEPT ![p] = Coalesce(JoinCount(u, today), 0)]
    /\ upload_limit' = [upload_limit EXCEPT ![p] = JoinLimit(u, today)]
    /\ IF OverLimit(current_count'[p], upload_limit'[p])
       THEN Finish(p, "FALSE")
       ELSE /\ pc' = [pc EXCEPT ![p] = "tc_insert"]
            /\ ret' = [ret EXCEPT ![p] = "increment"]
    /\ UNCHANGED <<db, new_rows, c, decision>>

\* IncrementUpsert as it would be if the call took a lock on the user at its
\* SELECT and its INSERT waited for the other calls holding one.
IncrementUpsertWaits(p) ==
    /\ pc[p] = "tc_insert"
    /\ \A q \in Procs \ {p} : ~(pc[q] = "tc_insert" /\ arg[q] = arg[p])
    /\ user_upload_counts' = InsertOrIncrement(arg[p], month[p], upload_limit[p])
    /\ Finish(p, "TRUE")
    /\ UNCHANGED <<users, subscription_plan, today, resources, subscription_plans,
                   billing, arg, month, locals>>

\* Its INSERT ... ON CONFLICT DO UPDATE, and RETURN TRUE.
IncrementUpsert(p) ==
    /\ pc[p] = "tc_insert"
    /\ user_upload_counts' = InsertOrIncrement(arg[p], month[p], upload_limit[p])
    /\ Finish(p, "TRUE")
    /\ UNCHANGED <<users, subscription_plan, today, resources, subscription_plans,
                   billing, arg, month, locals>>

\* ---------------------------------------------- reset_monthly_upload_counts
\* ResetRows as it would be without the WHERE NOT EXISTS.
ResetAllRows(m) ==
    {NewRow(u, m, PlanLimit(subscription_plan[u]), PlanLimit(subscription_plan[u])) :
        u \in users}

\* The SELECT of the INSERT ... SELECT: one row per user without a row of the
\* month, upload_count and upload_limit both from the CASE over the plan.
ResetRows(m) ==
    {NewRow(u, m, PlanLimit(subscription_plan[u]), PlanLimit(subscription_plan[u])) :
        u \in {v \in users : ~HasRow(v, m)}}

\* The statement's snapshot is taken: its SELECT ... WHERE NOT EXISTS.
ResetSelect(p) ==
    /\ pc[p] = "idle"
    /\ pc' = [pc EXCEPT ![p] = "seed_insert"]
    /\ month' = [month EXCEPT ![p] = today]
    /\ ret' = [ret EXCEPT ![p] = "reset"]
    /\ new_rows' = [new_rows EXCEPT ![p] = ResetRows(today)]
    /\ UNCHANGED <<db, arg, current_count, upload_limit, c, decision>>

\* UniqueViolation as it would be without UNIQUE(user_id, month_year).
NoUniqueConstraint(rows) == FALSE

\* A row of the statement meets a row committed since its snapshot.
UniqueViolation(rows) == \E r \in rows : HasRow(r.user_id, r.month_year)

\* The rows are inserted; UNIQUE(user_id, month_year) fails the statement,
\* which then inserts nothing.
ResetInsert(p) ==
    /\ pc[p] = "seed_insert"
    /\ IF UniqueViolation(new_rows[p])
       THEN /\ Finish(p, "unique_violation")
            /\ UNCHANGED user_upload_counts
       ELSE /\ Finish(p, "void")
            /\ user_upload_counts' = user_upload_counts \cup new_rows[p]
    /\ UNCHANGED <<users, subscription_plan, today, resources, subscription_plans,
                   billing, arg, month, locals>>

\* ------------------------------------------------------ check_upload_limit
\* CheckUploadLimit as it would be with <= for < in its first CASE.
CheckUpToLimit(u, m) ==
    LET cnt == JoinCount(u, m)
        lim == JoinLimit(u, m)
    IN  [can_upload |-> cnt # NULL /\ lim # NULL /\ cnt <= lim,
         current_uploads |-> Coalesce(cnt, 0),
         upload_limit |-> lim,
         remaining_uploads |-> Greatest(SqlMinus(lim, Coalesce(cnt, 0)), 0)]

\* The row RETURN QUERY gives for user u (message left out).
CheckUploadLimit(u, m) ==
    LET cnt == JoinCount(u, m)
        lim == JoinLimit(u, m)
    IN  [can_upload |-> SqlLt(cnt, lim),
         current_uploads |-> Coalesce(cnt, 0),
         upload_limit |-> lim,
         remaining_uploads |-> Greatest(SqlMinus(lim, Coalesce(cnt, 0)), 0)]

\* CheckWrites as it would be if the function created the missing row.
CheckCreatesRow(u, m) ==
    IF HasRow(u, m) THEN {} ELSE {NewRow(u, m, 0, PlanLimit(subscription_plan[u]))}

\* The rows the function writes: it is one SELECT.
CheckWrites(u, m) == {}

Check(p, u) ==
    /\ pc[p] = "idle"
    /\ arg' = [arg EXCEPT ![p] = u]
    /\ month' = [month EXCEPT ![p] = today]
    /\ decision' = [decision EXCEPT ![p] = CheckUploadLimit(u, today)]
    /\ user_upload_counts' = user_upload_counts \cup CheckWrites(u, today)
    /\ Finish(p, "check")
    /\ UNCHANGED <<users, subscription_plan, today, resources, subscription_plans,
                   billing, current_count, upload_limit, new_rows, c>>

\* ------------------------------------------------ POST /resources/upload
\* countRs.rows[0].c >= 5
FreeUploads == 5

\* select count(*) from resources where teacher_id = $1
ResourceCount(u) ==
    LET RECURSIVE Sum(_)
        Sum(m) == IF m = 0 THEN 0 ELSE resources[u][m] + Sum(m - 1)
    IN  Sum(MaxPeriod)

StoredResources ==
    LET RECURSIVE Tot(_)
        Tot(S) == IF S = {} THEN 0
                  ELSE LET u == CHOOSE v \in S : TRUE
                       IN  ResourceCount(u) + Tot(S \ {u})
    IN  Tot(users)

UploadsInFlight == Cardinality({p \in Procs : pc[p] \in {"up_plan", "up_insert"}})

\* select 1 from subscription_plans where user_id = $1 and status = 'active'
\* and (expires_at is null or expires_at > now()) limit 1: its rowCount > 0
ActivePlan(u) ==
    \E r \in subscription_plans : r.user_id = u /\ r.expires_at > today

\* UploadRejected as it would be with > for >= ("more than 5 uploads").
UploadRejectedAbove(count, active) == count > FreeUploads /\ ~active

\* if (countRs.rows[0].c >= 5 && activePlan.rowCount === 0) return 402
UploadRejected(count, active) == count >= FreeUploads /\ ~active

\* What increment_upload_count returned to the request on connection p: the
\* handler runs three statements (a count, a select, an insert) and calls no
\* SQL function.
UploadConsumed(p) == "not called"

\* A request lacking teacher_id, title, subject or grade: 422.
UploadInvalid(p, u) ==
    /\ pc[p] = "idle"
    /\ arg' = [arg EXCEPT ![p] = u]
    /\ month' = [month EXCEPT ![p] = today]
    /\ Finish(p, "422")
    /\ UNCHANGED <<db, locals>>

\* The handler starts on a well-formed request and counts the teacher's rows.
UploadCount(p, u) ==
    /\ pc[p] = "idle"
    /\ StoredResources + UploadsInFlight < MaxResources
    /\ pc' = [pc EXCEPT ![p] = "up_plan"]
    /\ arg' = [arg EXCEPT ![p] = u]
    /\ month' = [month EXCEPT ![p] = today]
    /\ ret' = [ret EXCEPT ![p] = "upload"]
    /\ c' = [c EXCEPT ![p] = ResourceCount(u)]
    /\ UNCHANGED <<db, current_count, upload_limit, new_rows, decision>>

\* It looks for an active plan and decides.
UploadGuard(p) ==
    /\ pc[p] = "up_plan"
    /\ IF UploadRejected(c[p], ActivePlan(arg[p]))
       THEN Finish(p, "402")
       ELSE /\ pc' = [pc EXCEPT ![p] = "up_insert"]
            /\ UNCHANGED ret
    /\ UNCHANGED <<db, arg, month, locals>>

\* insert into resources ... returning, and 201.
UploadInsert(p) ==
    /\ pc[p] = "up_insert"
    /\ resources' = [resources EXCEPT ![arg[p]][today] = @ + 1]
    /\ Finish(p, "201")
    /\ UNCHANGED <<users, subscription_plan, today, user_upload_counts,
                   subscription_plans, billing, arg, month, locals>>

\* ------------------------------------------------ POST /payments/demo-complete
\* One transaction inserts a 'completed' payment_transactions row under a
\* generated transaction_id and an 'active' subscription_plans row expiring
\* now() + months (months = 1). Rows that differ in their generated ids alone
\* are one row here: the upload endpoint asks only whether an active row exists.
DemoComplete(u) ==
    /\ subscription_plans' =
           subscription_plans \cup {[user_id |-> u, expires_at |-> today + 1,
                                     payment_transaction_id |-> "demo", id |-> 1]}
    /\ subscription_plans' # subscription_plans
    /\ payment_transactions' = payment_transactions \cup
           {[transaction_id |-> "demo", user_id |-> u, status |-> "completed"]}
    /\ UNCHANGED <<users, subscription_plan, today, user_upload_counts, resources,
                   auth_credentials, resource_purchases,
                   pc, arg, month, locals, ret>>

\* ------------------------------------------------ POST /users/register
\* RegisterRows as it would be if signing up opened the user's row of the month.
RegisterSeedsRow(u) == {NewRow(u, today, 0, PlanLimit("free"))}

\* The rows of user_upload_counts the registration inserts: its transaction
\* has two INSERTs, into users and into auth_credentials.
RegisterRows(u) == {}

\* What can fail in the transaction: nothing, the INSERT into users (for
\* another reason than its email: the CHECK on role), bcrypt.hash, or the
\* INSERT into auth_credentials (the table may not have been created yet).
RegisterFailures == {"none", "users", "hash", "credentials"}

\* UsersInserted as it would be if each statement committed by itself.
UsersInsertedAutocommit(u, failure) == IF failure = "users" THEN {} ELSE {u}

\* The rows of users the transaction leaves: begin ... commit keeps the row
\* of u when no statement failed, the rollback of the catch drops it.
UsersInserted(u, failure) == IF failure = "none" THEN {u} ELSE {}

\* The rows of auth_credentials the transaction leaves.
CredentialsInserted(u, failure) == IF failure = "none" THEN {u} ELSE {}

\* A request for the email of u; `valid` when email, full_name and password
\* are there. An email already in users fails the first INSERT
\* (users_email_key): rollback and 409. Any other failure: rollback and 500.
Register(p, u, valid, failure) ==
    /\ pc[p] = "idle"
    /\ IF ~valid
       THEN /\ Finish(p, "422")
            /\ UNCHANGED <<users, subscription_plan, auth_credentials,
                           user_upload_counts, arg>>
       ELSE /\ arg' = [arg EXCEPT ![p] = u]
            /\ IF failure = "users"
               THEN /\ Finish(p, "500")
                    /\ UNCHANGED <<users, subscription_plan, auth_credentials,
                                   user_upload_counts>>
               ELSE IF u \in users
               THEN /\ Finish(p, "409")
                    /\ UNCHANGED <<users, subscription_plan, auth_credentials,
                                   user_upload_counts>>
               ELSE /\ users' = users \cup UsersInserted(u, failure)
                    /\ subscription_plan' =
                          [subscription_plan EXCEPT
                              ![u] = IF UsersInserted(u, failure) # {}
                                     THEN "free" ELSE @]
                    /\ auth_credentials' =
                          auth_credentials \cup CredentialsInserted(u, failure)
                    /\ user_upload_counts' =
                          IF failure = "none"
                          THEN user_upload_counts \cup RegisterRows(u)
                          ELSE user_upload_counts
                    /\ Finish(p, IF failure = "none" THEN "201" ELSE "500")
    /\ UNCHANGED <<today, resources, subscription_plans, payment_transactions,
                   resource_purchases, month, locals>>

\* ------------------------------------------------ POST /users/login
\* `password` is "" (a field is missing), "wrong" or "right".
Login(p, u, password) ==
    /\ pc[p] = "idle"
    /\ Finish(p, IF password = "" THEN "422"
                 ELSE IF u \in users /\ u \in auth_credentials /\ password = "right"
                 THEN "200"
                 ELSE "401")
    /\ UNCHANGED <<db, arg, month, locals>>

\* ------------------------------------------------ POST /payments/initialize
\* The status of a request to the payment provider: the request names its
\* user (`valid`), the Flutterwave keys are configured (`keys`), the provider
\* answers with a checkout link (`link`).
ProviderStatus(valid, keys, link) ==
    IF ~valid THEN "422"
    ELSE IF ~keys THEN "500"
    ELSE IF ~link THEN "502"
    ELSE "200"

PaymentsInitialize(p, valid, keys, link) ==
    /\ pc[p] = "idle"
    /\ Finish(p, ProviderStatus(valid, keys, link))
    /\ UNCHANGED <<db, arg, month, locals>>

\* ------------------------------------------------ POST /payments/webhook
\* Transaction ids, resource ids and statuses the provider's events carry.
TxIds == {"t1"}
WebhookStatuses == {"successful", "failed"}
\* The same with the spellings and the second transaction the provider's
\* deliveries are run with, the secrets of the environment and the verif-hash
\* headers of the requests.
EventTxIds == {"t1", "t2"}
EventStatuses == {"successful", "COMPLETED", "failed"}
Secrets == {"", "s3cret"}
Headers == {"", "s3cret"}

\* Paid as it would be were every status the event carries taken for a
\* settled payment.
PaidWhatever(status) == status # ""

\* Signed as it would be were the header alone looked at.
SignedUnconfigured(secret, header) == header = secret

\* String(status).toLowerCase(), on the spellings of the statuses above.
ToLowerCase(status) ==
    CASE status = "COMPLETED" -> "completed"
      [] OTHER -> status

\* String(status).toLowerCase() === 'successful' || ... === 'completed'
Paid(status) == ToLowerCase(status) \in {"successful", "completed"}

\* !(!expected || signature !== expected): a secret is configured and the
\* verif-hash header equals it.
Signed(secret, header) == secret # "" /\ header = secret

\* insert into payment_transactions ... on conflict (transaction_id)
\* do update set status = excluded.status
UpsertTransaction(tx, u, status) ==
    IF \E r \in payment_transactions : r.transaction_id = tx
    THEN {IF r.transaction_id = tx THEN [r EXCEPT !.status = status] ELSE r :
             r \in payment_transactions}
    ELSE payment_transactions \cup
             {[transaction_id |-> tx, user_id |-> u, status |-> status]}

\* The rows of subscription_plans inserted for the transaction tx.
PlanRowsFor(tx) == {r \in subscription_plans : r.payment_transaction_id = tx}

\* insert into subscription_plans (...) values (...) on conflict do nothing:
\* the table's one constraint is its serial id, which the INSERT draws
\* afresh, so the row is always added (id: its number among the rows of tx).
InsertPlan(u, tx) ==
    subscription_plans \cup
        {[user_id |-> u, expires_at |-> today + 1,
          payment_transaction_id |-> tx, id |-> Cardinality(PlanRowsFor(tx)) + 1]}

\* insert into resource_purchases (...) on conflict (buyer_id, resource_id)
\* do nothing
InsertPurchase(u, tx) ==
    IF \E r \in resource_purchases : r.buyer_id = u /\ r.resource_id = "r1"
    THEN resource_purchases
    ELSE resource_purchases \cup
             {[buyer_id |-> u, resource_id |-> "r1", transaction_id |-> tx]}

\* An event signed or not (`signed`), with or without user_id and
\* transaction_id (`ids`), for user u, of purchase_type `kind`. The handler's
\* transaction commits as a whole; a user_id or resource_id that no row has
\* breaks a foreign key: rollback and 500.
Webhook(p, signed, ids, u, tx, status, kind) ==
    /\ pc[p] = "idle"
    /\ IF ~signed
       THEN /\ Finish(p, "401")
            /\ UNCHANGED <<payment_transactions, resource_purchases, subscription_plans>>
       ELSE IF ~ids
       THEN /\ Finish(p, "422")
            /\ UNCHANGED <<payment_transactions, resource_purchases, subscription_plans>>
       ELSE IF u \notin users \/ (Paid(status) /\ kind = "resource" /\ StoredResources = 0)
       THEN /\ Finish(p, "500")
            /\ UNCHANGED <<payment_transactions, resource_purchases, subscription_plans>>
       ELSE /\ payment_transactions' = UpsertTransaction(tx, u, status)
            /\ IF ~Paid(status)
               THEN UNCHANGED <<resource_purchases, subscription_plans>>
               ELSE IF kind = "resource"
               THEN /\ resource_purchases' = InsertPurchase(u, tx)
                    /\ UNCHANGED subscription_plans
               ELSE /\ subscription_plans' = InsertPlan(u, tx)
                    /\ UNCHANGED resource_purchases
            /\ Finish(p, "200")
    /\ UNCHANGED <<users, subscription_plan, today, user_upload_counts, resources,
                   auth_credentials, arg, month, locals>>

\* ------------------------------------------------ GET /health, GET /
\* select 1
Health(p) ==
    /\ pc[p] = "idle"
    /\ Finish(p, "200")
    /\ UNCHANGED <<db, arg, month, locals>>

\* ------------------------------------------------ GET /users/:id/dashboard
\* Four SELECTs over resources and users.
Dashboard(p) ==
    /\ pc[p] = "idle"
    /\ Finish(p, "200")
    /\ UNCHANGED <<db, arg, month, locals>>

\* ------------------------------------------------ GET /resources
\* One SELECT over resources.
Search(p) ==
    /\ pc[p] = "idle"
    /\ Finish(p, "200")
    /\ UNCHANGED <<db, arg, month, locals>>

\* ------------------------------------- POST /resources/:id/purchase-initialize
\* A request with or without buyer_id (`valid`) and creator_id (`creator`):
\* without creator_id the resource is looked up, 404 when it is not there.
PurchaseInitialize(p, valid, creator, keys, link) ==
    /\ pc[p] = "idle"
    /\ Finish(p, IF valid /\ ~creator /\ StoredResources = 0
                 THEN "404"
                 ELSE ProviderStatus(valid, keys, link))
    /\ UNCHANGED <<db, arg, month, locals>>

\* ------------------------------------------------------------ environment
\* The calendar month ends.
AdvanceMonth ==
    /\ today < MaxPeriod
    /\ today' = today + 1
    /\ UNCHANGED <<users, subscription_plan, user_upload_counts, resources,
                   subscription_plans, billing, pc, arg, month, locals, ret>>

\* users.subscription_plan of u is set to another plan.
ChangePlan(u, plan) ==
    /\ subscription_plan[u] # plan
    /\ subscription_plan' = [subscription_plan EXCEPT ![u] = plan]
    /\ UNCHANGED <<users, today, user_upload_counts, resources, subscription_plans,
                   billing, pc, arg, month, locals, ret>>

\* The caller has its answer; the connection goes back to the pool.
Return(p) ==
    /\ pc[p] = "done"
    /\ pc' = [pc EXCEPT ![p] = "idle"]
    /\ arg' = [arg EXCEPT ![p] = "u1"]
    /\ month' = [month EXCEPT ![p] = 1]
    /\ ret' = [ret EXCEPT ![p] = ""]
    /\ current_count' = [current_count EXCEPT ![p] = NULL]
    /\ upload_limit' = [upload_limit EXCEPT ![p] = NULL]
    /\ new_rows' = [new_rows EXCEPT ![p] = {}]
    /\ c' = [c EXCEPT ![p] = 0]
    /\ decision' = [decision EXCEPT ![p] = NoDecision]
    /\ UNCHANGED db

\* ------------------------------------------------------------------ Spec
\* The bound on the counter of a row that has no limit.
BelowCap(u) ==
    ~(JoinLimit(u, today) = NULL /\ Coalesce(JoinCount(u, today), 0) >= MaxCount)

\* last_check without what was recorded for u.
Forget(u) == [last_check EXCEPT ![u] = NoDecision]

\* The SQL functions called on concurrent connections for the registered
\* users, while the month ends and plans change.
Next ==
    \/ \E p \in Procs, u \in users :
          /\ BelowCap(u)
          /\ IncrementSelect(p, u)
          /\ last_check' = Forget(u)
          /\ UNCHANGED <<tc_log, request>>
    \/ \E p \in Procs :
          /\ IncrementUpsert(p)
          /\ last_check' = Forget(arg[p])
          /\ UNCHANGED <<tc_log, request>>
    \/ \E p \in Procs : ResetSelect(p) /\ UNCHANGED history
    \/ \E p \in Procs : ResetInsert(p) /\ UNCHANGED history
    \/ \E p \in Procs, u \in users :
          /\ Check(p, u)
          /\ last_check' = [last_check EXCEPT ![u] = decision'[p]]
          /\ UNCHANGED <<tc_log, request>>
    \/ /\ AdvanceMonth
       /\ last_check' = [u \in AllUsers |-> NoDecision]
       /\ UNCHANGED <<tc_log, request>>
    \/ \E u \in users, plan \in ModelPlans : ChangePlan(u, plan) /\ UNCHANGED history
    \/ \E p \in Procs : Return(p) /\ UNCHANGED history

Spec == Init /\ [][Next]_vars

\* -------------------------------------------------------------- SeqSpec
\* No call is in flight on a connection other than p.
Alone(p) == \A q \in Procs \ {p} : pc[q] \in {"idle", "done"}

Quiet == \A q \in Procs : pc[q] \in {"idle", "done"}

\* The same calls made one after the other by users who keep their plan; the
\* results of increment_upload_count are logged per user for the month.
SeqNext ==
    \/ \E p \in Procs, u \in users :
          /\ Alone(p)
          /\ Len(tc_log[u]) < MaxCalls
          /\ IncrementSelect(p, u)
          /\ tc_log' = IF ret'[p] = "FALSE"
                       THEN [tc_log EXCEPT ![u] = Append(@, "FALSE")]
                       ELSE tc_log
          /\ UNCHANGED <<last_check, request>>
    \/ \E p \in Procs :
          /\ IncrementUpsert(p)
          /\ tc_log' = [tc_log EXCEPT ![arg[p]] = Append(@, "TRUE")]
          /\ UNCHANGED <<last_check, request>>
    \/ \E p \in Procs : Alone(p) /\ ResetSelect(p) /\ UNCHANGED history
    \/ \E p \in Procs : ResetInsert(p) /\ UNCHANGED history
    \/ \E p \in Procs, u \in users : Alone(p) /\ Check(p, u) /\ UNCHANGED history
    \/ /\ Quiet
       /\ AdvanceMonth
       /\ tc_log' = [u \in AllUsers |-> <<>>]
       /\ UNCHANGED <<last_check, request>>
    \/ \E p \in Procs : Return(p) /\ UNCHANGED history

SeqSpec == Init /\ [][SeqNext]_vars

\* ------------------------------------------------------------ UploadSpec
\* Requests to the upload endpoint and to demo-complete on concurrent
\* connections, beside the monthly job.
UploadNext ==
    \/ \E p \in Procs, u \in users : UploadInvalid(p, u) /\ UNCHANGED history
    \/ \E p \in Procs, u \in users : UploadCount(p, u) /\ UNCHANGED history
    \/ \E p \in Procs : UploadGuard(p) /\ UNCHANGED history
    \/ \E p \in Procs : UploadInsert(p) /\ UNCHANGED history
    \/ \E u \in users : DemoComplete(u) /\ UNCHANGED history
    \/ \E p \in Procs : ResetSelect(p) /\ UNCHANGED history
    \/ \E p \in Procs : ResetInsert(p) /\ UNCHANGED history
    \/ AdvanceMonth /\ UNCHANGED history
    \/ \E p \in Procs : Return(p) /\ UNCHANGED history

UploadSpec == Init /\ [][UploadNext]_vars

\* No call is in flight on any connection but p, and no answer is waiting.
Free(p) == \A q \in Procs \ {p} : pc[q] = "idle"

\* --------------------------------------------------------- UploadSeqSpec
\* Requests to the upload endpoint one after the other, between demo-complete
\* payments and month ends.
UploadSeqNext ==
    \/ \E p \in Procs, u \in users : Free(p) /\ UploadInvalid(p, u) /\ UNCHANGED history
    \/ \E p \in Procs, u \in users : Free(p) /\ UploadCount(p, u) /\ UNCHANGED history
    \/ \E p \in Procs : UploadGuard(p) /\ UNCHANGED history
    \/ \E p \in Procs : UploadInsert(p) /\ UNCHANGED history
    \/ \E u \in users : Quiet /\ DemoComplete(u) /\ UNCHANGED history
    \/ Quiet /\ AdvanceMonth /\ UNCHANGED history
    \/ \E p \in Procs : Return(p) /\ UNCHANGED history

UploadSeqSpec == Init /\ [][UploadSeqNext]_vars

\* ------------------------------------------------------------- FrameSpec
\* increment_upload_count called concurrently for two registered users, over
\* the months.
FrameNext ==
    \/ \E p \in Procs, u \in users :
          BelowCap(u) /\ IncrementSelect(p, u) /\ UNCHANGED history
    \/ \E p \in Procs : IncrementUpsert(p) /\ UNCHANGED history
    \/ Quiet /\ AdvanceMonth /\ UNCHANGED history
    \/ \E p \in Procs : Return(p) /\ UNCHANGED history

FrameSpec == InitWith(AllUsers) /\ [][FrameNext]_vars

\* ----------------------------------------------------------- CatalogSpec
\* The monthly job run for a user whose subscription_plan takes every value
\* of PlanNames.
CatalogNext ==
    \/ \E u \in users, plan \in PlanNames : ChangePlan(u, plan) /\ UNCHANGED history
    \/ \E p \in Procs : ResetSelect(p) /\ UNCHANGED history
    \/ \E p \in Procs : ResetInsert(p) /\ UNCHANGED history
    \/ AdvanceMonth /\ UNCHANGED history
    \/ \E p \in Procs : Return(p) /\ UNCHANGED history

CatalogSpec == Init /\ [][CatalogNext]_vars

\* ----------------------------------------------------------- BackendSpec
\* The HTTP handlers of the backend and the SQL functions, one request at a
\* time, in one month.
BackendNext ==
    \/ \E p \in Procs, u \in AllUsers, valid \in BOOLEAN,
          failure \in RegisterFailures :
          Free(p) /\ Register(p, u, valid, failure) /\ UNCHANGED history
    \/ \E p \in Procs, u \in AllUsers, password \in {"", "wrong", "right"} :
          Free(p) /\ Login(p, u, password) /\ UNCHANGED history
    \/ \E p \in Procs, valid, keys, link \in BOOLEAN :
          Free(p) /\ PaymentsInitialize(p, valid, keys, link) /\ UNCHANGED history
    \/ \E u \in users : Quiet /\ DemoComplete(u) /\ UNCHANGED history
    \/ \E p \in Procs, signed, ids \in BOOLEAN, u \in Payers, tx \in TxIds,
          status \in WebhookStatuses, kind \in {"resource", "plan"} :
          /\ Free(p)
          /\ Cardinality(PlanRowsFor(tx)) < MaxDeliveries
          /\ Webhook(p, signed, ids, u, tx, status, kind)
          /\ UNCHANGED history
    \/ \E p \in Procs : Free(p) /\ Health(p) /\ UNCHANGED history
    \/ \E p \in Procs : Free(p) /\ Dashboard(p) /\ UNCHANGED history
    \/ \E p \in Procs : Free(p) /\ Search(p) /\ UNCHANGED history
    \/ \E p \in Procs, valid, creator, keys, link \in BOOLEAN :
          Free(p) /\ PurchaseInitialize(p, valid, creator, keys, link) /\ UNCHANGED history
    \/ \E p \in Procs, u \in users : Free(p) /\ UploadInvalid(p, u) /\ UNCHANGED history
    \/ \E p \in Procs, u \in users :
          Free(p) /\ StoredResources < MaxBackendUploads /\ UploadCount(p, u)
          /\ UNCHANGED history
    \/ \E p \in Procs : UploadGuard(p) /\ UNCHANGED history
    \/ \E p \in Procs : UploadInsert(p) /\ UNCHANGED history
    \/ \E p \in Procs, u \in users : Free(p) /\ Check(p, u) /\ UNCHANGED history
    \/ \E p \in Procs, u \in users :
          Free(p) /\ BelowCap(u) /\ IncrementSelect(p, u) /\ UNCHANGED history
    \/ \E p \in Procs : IncrementUpsert(p) /\ UNCHANGED history
    \/ \E p \in Procs : Free(p) /\ ResetSelect(p) /\ UNCHANGED history
    \/ \E p \in Procs : ResetInsert(p) /\ UNCHANGED history
    \/ \E p \in Procs : Return(p) /\ UNCHANGED history

BackendSpec == Init /\ [][BackendNext]_vars

\* ---------------------------------------------------------- RegisterSpec
\* Sign-ups and logins on concurrent connections, starting without users.
RegisterNext ==
    \/ \E p \in Procs, u \in AllUsers, valid \in BOOLEAN,
          failure \in RegisterFailures :
          Register(p, u, valid, failure) /\ UNCHANGED history
    \/ \E p \in Procs, u \in AllUsers, password \in {"", "wrong", "right"} :
          Login(p, u, password) /\ UNCHANGED history
    \/ \E p \in Procs : Return(p) /\ UNCHANGED history

RegisterSpec == InitWith({}) /\ [][RegisterNext]_vars

\* ----------------------------------------------------------- WebhookSpec
\* The request the provider sends: what the handler reads of it, and the
\* secret of the environment it is checked against.
Requests ==
    [secret : Secrets, header : Headers, ids : BOOLEAN, user_id : AllUsers,
     transaction_id : EventTxIds, status : EventStatuses,
     purchase_type : {"resource", "plan"}]

\* What the handler has read of rq when it answers: the header and the secret
\* first, the body only of a request it found signed, and past user_id and
\* transaction_id only when both are there.
Read(rq) ==
    IF ~Signed(rq.secret, rq.header)
    THEN [NoRequest EXCEPT !.secret = rq.secret, !.header = rq.header]
    ELSE IF ~rq.ids
    THEN [NoRequest EXCEPT !.secret = rq.secret, !.header = rq.header,
                           !.ids = "missing"]
    ELSE [rq EXCEPT !.ids = "present"]

\* The webhook answers the request rq on p.
Deliver(p, rq) ==
    /\ Webhook(p, Signed(rq.secret, rq.header), rq.ids, rq.user_id,
               rq.transaction_id, rq.status, rq.purchase_type)
    /\ request' = [request EXCEPT ![p] = Read(rq)]
    /\ UNCHANGED <<tc_log, last_check>>

\* The answer is sent and the connection released.
Answered(p) ==
    /\ Return(p)
    /\ request' = [request EXCEPT ![p] = NoRequest]
    /\ UNCHANGED <<tc_log, last_check>>

\* Deliveries of the provider's events, replays among them, one after the
\* other, between the uploads of the resource that is sold.
WebhookNext ==
    \/ \E p \in Procs, rq \in Requests :
          /\ Free(p)
          /\ Cardinality(PlanRowsFor(rq.transaction_id)) < MaxDeliveries
          /\ Deliver(p, rq)
    \/ \E p \in Procs, u \in users :
          Free(p) /\ StoredResources < MaxBackendUploads /\ UploadCount(p, u)
          /\ UNCHANGED history
    \/ \E p \in Procs : UploadGuard(p) /\ UNCHANGED history
    \/ \E p \in Procs : UploadInsert(p) /\ UNCHANGED history
    \/ \E p \in Procs : Answered(p)

WebhookSpec == Init /\ [][WebhookNext]_vars

\* -------------------------------------------------------------- LiveSpec
\* The statement a call is at, as the database runs it.
LiveUpsert(p) == IncrementUpsert(p) /\ UNCHANGED history
LiveInsert(p) == ResetInsert(p) /\ UNCHANGED history

\* increment_upload_count and the monthly job called on concurrent
\* connections.
LiveNext ==
    \/ \E p \in Procs, u \in users :
          BelowCap(u) /\ IncrementSelect(p, u) /\ UNCHANGED history
    \/ \E p \in Procs : LiveUpsert(p)
    \/ \E p \in Procs : ResetSelect(p) /\ UNCHANGED history
    \/ \E p \in Procs : LiveInsert(p)
    \/ AdvanceMonth /\ UNCHANGED history
    \/ \E p \in Procs : Return(p) /\ UNCHANGED history

\* A statement that can run does run: no statement of the functions holds a
\* lock beyond itself, so the database never keeps one waiting for ever.
LiveSpec ==
    /\ Init /\ [][LiveNext]_vars
    /\ \A p \in Procs : WF_vars(LiveUpsert(p)) /\ WF_vars(LiveInsert(p))

\* ================================================================ claims
SqlLe(a, b) == a # NULL /\ b # NULL /\ a <= b

\* The connection p finishes a call in this step, returning `result`.
Returns(p, result) == pc[p] # "done" /\ pc'[p] = "done" /\ ret'[p] = result

\* C1: no overshoot: in every reachable state every row of user_upload_counts
\* has upload_count <= upload_limit.
C1_NoOvershoot ==
    \A r \in user_upload_counts : SqlLe(r.upload_count, r.upload_limit)

\* The row of (u, m) has a limit and no unit left.
NoUnitLeft(u, m) ==
    HasRow(u, m) /\ SqlGe(TheRow(u, m).upload_count, TheRow(u, m).upload_limit)

\* C2: the limit check and the increment are one atomic step: no call of
\* increment_upload_count returns true when the row, at the moment the call
\* increments it, has no unit left (so K units never serve more than K calls).
C2_AtomicLimitCheck ==
    [][\A p \in Procs :
          Returns(p, "TRUE") => ~NoUnitLeft(arg[p], month[p])]_vars

\* What the i-th call of a month returns to a user whose plan allows `limit`.
Expected(i, limit) == IF i <= limit THEN "TRUE" ELSE "FALSE"

\* C3: in a fresh month the first L sequential calls of increment_upload_count
\* of a user with plan limit L return true and every later one false (free
\* plan: three true, the fourth false), and check_upload_limit after the L-th
\* reports remaining 0 and can_upload false.
C3_FirstLThenDenied ==
    [][/\ \A u \in users : \A i \in 1..Len(tc_log'[u]) :
             tc_log'[u][i] = Expected(i, PlanLimit(subscription_plan[u]))
       /\ \A p \in Procs :
             (/\ Returns(p, "check")
              /\ Len(tc_log[arg'[p]]) = PlanLimit(subscription_plan[arg'[p]]))
             => (decision'[p].remaining_uploads = 0 /\ ~decision'[p].can_upload)]_vars

\* C4: the upload endpoint inserts a resource (201) only for a request to
\* which increment_upload_count returned true.
C4_InsertOnlyIfConsumed ==
    \A p \in Procs : (pc[p] = "done" /\ ret[p] = "201") => UploadConsumed(p) = "TRUE"

\* C5: whenever no request is in flight, the resources a user stored in a
\* month are as many as the upload_count of the user's row of that month.
C5_ResourcesMatchUnits ==
    Quiet => \A u \in users, m \in Periods :
                 resources[u][m] = Coalesce(JoinCount(u, m), 0)

\* C6: at most one row of user_upload_counts per (user, month), in every
\* reachable state.
C6_OneRowPerUserMonth ==
    \A u \in AllUsers, m \in Periods : Cardinality(RowsOf(u, m)) <= 1

\* Two calls that both found no row of the month have both incremented, and
\* one row holds both units.
C6_Witness ==
    \E p, q \in Procs :
        /\ p # q
        /\ pc[p] = "done" /\ pc[q] = "done"
        /\ ret[p] = "TRUE" /\ ret[q] = "TRUE"
        /\ current_count[p] = 0 /\ current_count[q] = 0
        /\ arg[p] = arg[q] /\ month[p] = month[q]
        /\ Cardinality(RowsOf(arg[p], month[p])) = 1
        /\ TheRow(arg[p], month[p]).upload_count = 2

\* C7: creating the missing row never fails: no call ends in a
\* unique-constraint violation, however the calls interleave.
C7_CreationNeverFails ==
    \A p \in Procs : ret[p] # "unique_violation"

\* C8: check_upload_limit is read-only: a call leaves user_upload_counts (its
\* rows, every upload_count and upload_limit) as it was.
C8_CheckReadOnly ==
    [][\A p \in Procs :
          Returns(p, "check") => user_upload_counts' = user_upload_counts]_vars

\* A check was answered for a user without a row of the month while the
\* table held rows of an earlier month.
C8_Witness ==
    \E p \in Procs :
        /\ pc[p] = "done" /\ ret[p] = "check"
        /\ ~HasRow(arg[p], month[p])
        /\ user_upload_counts # {}

\* C9: check_upload_limit calls for one user in one month, with no
\* increment_upload_count between them, all return the same remaining,
\* can_upload, used and limit.
C9_CheckIdempotent ==
    [][\A p \in Procs :
          (Returns(p, "check") /\ last_check[arg'[p]] # NoDecision)
          => decision'[p] = last_check[arg'[p]]]_vars

\* The answer for a fresh row of a user on `plan`.
FreshDecision(plan) ==
    [can_upload |-> TRUE, current_uploads |-> 0, upload_limit |-> PlanLimit(plan),
     remaining_uploads |-> PlanLimit(plan)]

\* C10: for a user without a row of the month, check_upload_limit answers as
\* for a fresh row: used 0, limit and remaining the plan's limit, can_upload.
C10_CheckWithoutRow ==
    [][\A p \in Procs :
          (Returns(p, "check") /\ ~HasRow(arg'[p], today))
          => decision'[p] = FreshDecision(subscription_plan[arg'[p]])]_vars

\* max(a, 0)
Max0(a) == IF a > 0 THEN a ELSE 0

KnownPlans == {"free", "basic", "premium", "enterprise"}

\* C12: the plan catalog is total: the limit the monthly job computes for a
\* user is 3 for free, 15 for basic, 50 for premium, 200 for enterprise and 3
\* for every other value of the plan, the empty string and NULL included; it
\* is never above 200, and never above 3 for an unrecognized plan.
C12_CatalogTotal ==
    [][\A p \in Procs :
          (pc[p] = "idle" /\ pc'[p] = "seed_insert")
          => \A r \in new_rows'[p] :
                LET plan == subscription_plan[r.user_id]
                    lim == r.upload_limit
                IN  /\ plan = "free" => lim = 3
                    /\ plan = "basic" => lim = 15
                    /\ plan = "premium" => lim = 50
                    /\ plan = "enterprise" => lim = 200
                    /\ plan \notin KnownPlans => lim = 3
                    /\ lim # NULL /\ lim <= 200]_vars

\* The job has computed limit 3 for a user whose plan is NULL, while the table
\* holds a row it made with limit 200.
C12_Witness ==
    \E p \in Procs :
        /\ pc[p] = "seed_insert"
        /\ \E r \in new_rows[p] :
              subscription_plan[r.user_id] = NullPlan /\ r.upload_limit = 3
        /\ \E r \in user_upload_counts : r.upload_limit = 200

\* The connection p starts a call of increment_upload_count in this step.
IncrementCalled(p) == pc[p] = "idle" /\ ret'[p] \in {"increment", "FALSE"}

\* C13: increment_upload_count called for a user whose row of the month has
\* upload_count >= upload_limit returns false and leaves user_upload_counts
\* unchanged (same rows, same upload_count, same upload_limit).
C13_DeniedWithoutWrite ==
    [][\A p \in Procs :
          (IncrementCalled(p) /\ NoUnitLeft(arg'[p], today))
          => (Returns(p, "FALSE") /\ user_upload_counts' = user_upload_counts)]_vars

\* A call was denied on the row (3, 3), which is as it was.
C13_Witness ==
    \E p \in Procs :
        /\ pc[p] = "done" /\ ret[p] = "FALSE"
        /\ current_count[p] = 3 /\ upload_limit[p] = 3
        /\ HasRow(arg[p], month[p])
        /\ TheRow(arg[p], month[p]).upload_count = 3
        /\ TheRow(arg[p], month[p]).upload_limit = 3

\* C14: when increment_upload_count returns true, its write made the user's
\* upload_count of the month exactly one greater than it was (1 if the call
\* created the row) and left the upload_limit of an existing row as it was.
C14_ConsumesOneUnit ==
    [][\A p \in Procs :
          Returns(p, "TRUE")
          => LET u == arg[p]
                 m == month[p]
                 after == {r \in user_upload_counts' :
                              r.user_id = u /\ r.month_year = m}
             IN  /\ Cardinality(after) = 1
                 /\ \A n \in after :
                       IF HasRow(u, m)
                       THEN /\ n.upload_count = TheRow(u, m).upload_count + 1
                            /\ n.upload_limit = TheRow(u, m).upload_limit
                       ELSE n.upload_count = 1]_vars

\* A call that read upload_count 1 returned true and the row holds 2.
C14_Witness ==
    \E p \in Procs :
        /\ pc[p] = "done" /\ ret[p] = "TRUE"
        /\ current_count[p] = 1
        /\ HasRow(arg[p], month[p])
        /\ TheRow(arg[p], month[p]).upload_count = 2

\* C15: when reset_monthly_upload_counts completes, every user has a row of
\* the month, and every row the job created has upload_count 0 and
\* upload_limit the catalog's limit for the user's plan.
C15_SeedCreatesFreshRows ==
    [][\A p \in Procs :
          Returns(p, "void")
          => /\ \A u \in users :
                   \E r \in user_upload_counts' :
                       r.user_id = u /\ r.month_year = month[p]
             /\ \A r \in new_rows[p] :
                   /\ r.upload_count = 0
                   /\ r.upload_limit = PlanLimit(subscription_plan[r.user_id])]_vars

\* C16: reset_monthly_upload_counts only creates missing rows: every row that
\* exists, of the month or of an earlier one, keeps its upload_count and
\* upload_limit however often the job runs, and a run that starts when every
\* user has a row of the month selects nothing and returns with the table
\* unchanged (a user who used 2 units still has 2).
C16_SeedKeepsExistingRows ==
    [][\A p \in Procs :
          /\ (pc[p] = "idle" /\ pc'[p] = "seed_insert")
             => /\ user_upload_counts' = user_upload_counts
                /\ (\A u \in users : HasRow(u, today)) => new_rows'[p] = {}
          /\ (pc[p] = "seed_insert" /\ pc'[p] = "done")
             => /\ user_upload_counts \subseteq user_upload_counts'
                /\ new_rows[p] = {}
                   => (ret'[p] = "void" /\ user_upload_counts' = user_upload_counts)]_vars

\* The job ran in the second month for a user who had used 2 units of it and
\* had a row of the first month: it created nothing and the row still holds 2.
C16_Witness ==
    \E p \in Procs :
        /\ pc[p] = "done" /\ ret[p] = "void" /\ new_rows[p] = {}
        /\ \E r \in user_upload_counts :
              r.month_year = month[p] /\ r.upload_count = 2
        /\ \E r \in user_upload_counts : r.month_year < month[p]

\* C17: upload_limit is fixed when the row is created: no step changes the
\* upload_limit of a row that exists, whatever happens to the user's plan,
\* and a row created after a plan change (by the job or by
\* increment_upload_count, in a new month) has the limit of the plan the user
\* then has.
C17_LimitFixedAtCreation ==
    [][/\ \A r \in user_upload_counts :
             \E n \in user_upload_counts' :
                 /\ n.user_id = r.user_id /\ n.month_year = r.month_year
                 /\ n.upload_limit = r.upload_limit
       /\ \A p \in Procs :
             (pc[p] = "idle" /\ pc'[p] = "seed_insert")
             => \A r \in new_rows'[p] :
                   r.upload_limit = PlanLimit(subscription_plan[r.user_id])
       /\ \A p \in Procs :
             (Returns(p, "TRUE") /\ ~HasRow(arg[p], month[p]))
             => \A n \in user_upload_counts' :
                   (n.user_id = arg[p] /\ n.month_year = month[p])
                   => n.upload_limit = PlanLimit(subscription_plan[arg[p]])]_vars

\* C18: the first increment_upload_count of a user without a row of the month
\* creates the row with upload_count 1 and upload_limit the catalog's limit
\* of the user's plan, and a later call of the month returns true only while
\* the row's upload_count is below the limit recorded in it.
C18_SelfHealingCreation ==
    [][\A p \in Procs :
          Returns(p, "TRUE")
          => IF HasRow(arg[p], month[p])
             THEN SqlLt(TheRow(arg[p], month[p]).upload_count,
                        TheRow(arg[p], month[p]).upload_limit)
             ELSE NewRow(arg[p], month[p], 1, PlanLimit(subscription_plan[arg[p]]))
                      \in user_upload_counts']_vars

\* The step is the INSERT ... ON CONFLICT of increment_upload_count on p: one
\* row of user_upload_counts is created with upload_count 1, or has its
\* upload_count raised by 1 and nothing else changed.
IncrementWrites(p) ==
    /\ pc[p] = "tc_insert" /\ Returns(p, "TRUE")
    /\ \E n \in user_upload_counts' :
          /\ n.user_id = arg[p] /\ n.month_year = month[p]
          /\ IF HasRow(arg[p], month[p])
             THEN /\ n = [TheRow(arg[p], month[p]) EXCEPT !.upload_count = @ + 1]
                  /\ user_upload_counts' =
                         (user_upload_counts \ RowsOf(arg[p], month[p])) \cup {n}
             ELSE /\ n.upload_count = 1
                  /\ user_upload_counts' = user_upload_counts \cup {n}

\* The step is the INSERT of reset_monthly_upload_counts on p: rows are
\* created for users that had none of the month, and no row is changed.
ResetCreates(p) ==
    /\ pc[p] = "seed_insert" /\ Returns(p, "void")
    /\ user_upload_counts \subseteq user_upload_counts'
    /\ \A n \in user_upload_counts' \ user_upload_counts :
          ~HasRow(n.user_id, n.month_year)

\* C19: user_upload_counts is written only by increment_upload_count (an
\* increment of upload_count, or the creation of the row) and by the monthly
\* job (creation of rows): every other step, of any HTTP handler (health,
\* register, login, dashboard, payments initialize, demo-complete, webhook,
\* resource search, purchase-initialize, upload) and of check_upload_limit,
\* leaves its rows,
\* every upload_count and every upload_limit as they were.
C19_LedgerWriters ==
    [][user_upload_counts' # user_upload_counts
       => \E p \in Procs : IncrementWrites(p) \/ ResetCreates(p)]_vars

\* A second user has registered, a paid webhook for a resource purchase and a
\* plan payment were handled and a resource was uploaded, while the only rows
\* of user_upload_counts are those the SQL functions made for the first user.
C19_Witness ==
    /\ "u2" \in users /\ "u2" \in auth_credentials
    /\ resource_purchases # {}
    /\ subscription_plans # {}
    /\ \E r \in payment_transactions : r.transaction_id \in TxIds
    /\ StoredResources > 0
    /\ user_upload_counts # {}
    /\ \A r \in user_upload_counts : r.user_id = "u1"
    /\ \E p \in Procs : pc[p] = "done" /\ ret[p] = "200"

\* C20: the history of user_upload_counts is monotone: across every step
\* (check, increment, the monthly job, a plan change, the end of a month) a
\* row that exists is still there afterwards, with an upload_count that is
\* not lower.
C20_LedgerMonotone ==
    [][\A r \in user_upload_counts :
          \E n \in user_upload_counts' :
              /\ n.user_id = r.user_id /\ n.month_year = r.month_year
              /\ n.upload_count >= r.upload_count]_vars

\* In the second month, after the job and an increment ran in it, the row of
\* the first month is still there with the 2 units used in it.
C20_Witness ==
    /\ today = 2
    /\ \E r \in user_upload_counts : r.month_year = 1 /\ r.upload_count = 2
    /\ \E r \in user_upload_counts : r.month_year = 2 /\ r.upload_count > 3
    /\ \E p \in Procs : pc[p] = "done" /\ ret[p] = "check" /\ month[p] = 2

\* C21: every call of increment_upload_count eventually returns true or
\* false, also when several calls for one user and month contend: a call in
\* flight is never left waiting.
C21_IncrementReturns ==
    \A p \in Procs : (ret[p] = "increment") ~> (ret[p] \in {"TRUE", "FALSE"})

\* Two calls for one user that both read upload_count 1 have both returned,
\* and the row holds 3.
C21_Witness ==
    \E p, q \in Procs :
        /\ p # q
        /\ pc[p] = "done" /\ pc[q] = "done"
        /\ ret[p] = "TRUE" /\ ret[q] = "TRUE"
        /\ arg[p] = arg[q] /\ month[p] = month[q]
        /\ current_count[p] = 1 /\ current_count[q] = 1
        /\ JoinCount(arg[p], month[p]) = 3

\* The teacher has 5 or more rows in resources and no active subscription.
AtFreeLimit(u) == ResourceCount(u) >= 5 /\ ~ActivePlan(u)

C23_FreeUploadsCapped ==
    \A u \in users :
        (\A r \in subscription_plans : r.user_id # u) => ResourceCount(u) <= 5

\* C24: check_upload_limit and increment_upload_count agree: in every state
\* of the table, with or without the user's row of the month, an
\* increment_upload_count run right after a check, nothing in between,
\* returns true if and only if the check reported can_upload, and when it
\* returns false the check reported remaining 0.
C24_GuardAgreesWithMutator ==
    [][\A p \in Procs :
          IncrementCalled(p)
          => LET d == CheckUploadLimit(arg'[p], today)
             IN  /\ d.can_upload <=> ret'[p] = "increment"
                 /\ ret'[p] = "FALSE" => d.remaining_uploads = 0]_vars

\* The row is not that of user u and month m.
OtherRow(r, u, m) == r.user_id # u \/ r.month_year # m

\* C25: a call of increment_upload_count for user A in month P changes at
\* most the row (A, P): the rows of every other user and the rows of A of
\* every other month are as they were, so what check_upload_limit answers
\* for another user is the same before and after, and the first call of a new
\* month starts the row at 1 whatever the earlier months hold.
C25_IncrementFrame ==
    [][\A p \in Procs :
          /\ IncrementCalled(p) => user_upload_counts' = user_upload_counts
          /\ (pc[p] = "tc_insert" /\ pc'[p] = "done")
             => /\ \A r \in user_upload_counts :
                      OtherRow(r, arg[p], month[p]) => r \in user_upload_counts'
                /\ \A n \in user_upload_counts' :
                      OtherRow(n, arg[p], month[p]) => n \in user_upload_counts
                /\ \A v \in users \ {arg[p]} :
                      CheckUploadLimit(v, today)' = CheckUploadLimit(v, today)
                /\ ~HasRow(arg[p], month[p])
                   => \A n \in user_upload_counts' :
                         OtherRow(n, arg[p], month[p]) \/ n.upload_count = 1]_vars

\* A call for one user has just opened the user's row of the second month at
\* 1, while the user's row of the first month holds 2 and the other user has
\* rows of both months.
C25_Witness ==
    \E p \in Procs : \E v \in users \ {arg[p]} :
        /\ pc[p] = "done" /\ ret[p] = "TRUE" /\ month[p] = 2
        /\ JoinCount(arg[p], 2) = 1
        /\ JoinCount(arg[p], 1) = 2
        /\ HasRow(v, 1) /\ HasRow(v, 2)

\* ------------------------------------------------------------ the webhook
\* The step is the webhook handling a request on p (WebhookSpec).
Delivery(p) == request[p] = NoRequest /\ request'[p] # NoRequest

\* The rows of a table kept for the transaction tx.
PaymentsOf(table, tx) == {r \in table : r.transaction_id = tx}
PlansOf(table, tx) == {r \in table : r.payment_transaction_id = tx}
PurchasesOf(table, u) == {r \in table : r.buyer_id = u /\ r.resource_id = "r1"}

\* The step delivers once more a successful event for which the webhook has
\* recorded the payment and created its row.
Replay(p) ==
    LET rq == request'[p]
    IN  /\ Delivery(p) /\ rq.ids = "present" /\ Paid(rq.status)
        /\ \E r \in PaymentsOf(payment_transactions, rq.transaction_id) :
              Paid(r.status)
        /\ \/ /\ rq.purchase_type = "plan"
              /\ \E r \in PlansOf(subscription_plans, rq.transaction_id) :
                    r.user_id = rq.user_id
           \/ /\ rq.purchase_type = "resource"
              /\ \E r \in PaymentsOf(resource_purchases, rq.transaction_id) :
                    r.buyer_id = rq.user_id

\* C26: webhook deliveries are idempotent per transaction: delivering the same
\* successful event (same transaction_id) once more leaves exactly one
\* payment_transactions row for it, and at most one subscription_plans row
\* created for it (or one resource_purchases row per buyer and resource).
C26_WebhookIdempotent ==
    [][\A p \in Procs :
          Replay(p) =>
             LET tx == request'[p].transaction_id
             IN  /\ Cardinality(PaymentsOf(payment_transactions', tx)) = 1
                 /\ Cardinality(PlansOf(subscription_plans', tx)) <= 1
                 /\ \A u \in AllUsers :
                       Cardinality(PurchasesOf(resource_purchases', u)) <= 1
      ]_vars

\* What of C26 does hold: a transaction has one payment_transactions row and a
\* buyer one resource_purchases row per resource, however often an event is
\* delivered.
C26_UniqueRows ==
    /\ \A tx \in EventTxIds :
          Cardinality(PaymentsOf(payment_transactions, tx)) <= 1
    /\ \A u \in AllUsers : Cardinality(PurchasesOf(resource_purchases, u)) <= 1

\* The statuses of a settled payment, in the spellings the events carry.
Settled(status) == status \in {"successful", "COMPLETED"}

\* The rows of payment_transactions the step added, removed or changed.
PaymentsTouched ==
    (payment_transactions' \ payment_transactions) \cup
    (payment_transactions \ payment_transactions')

\* C27: the webhook activates a subscription plan or records a resource
\* purchase only for an event whose status is 'successful' or 'completed' in
\* any case of letters; an event with another status changes at most the
\* payment_transactions row of its transaction_id and creates no
\* subscription_plans or resource_purchases row.
C27_OnlySettledEvents ==
    [][\A p \in Procs :
          Delivery(p) =>
             LET rq == request'[p]
             IN  /\ (subscription_plans' # subscription_plans \/
                     resource_purchases' # resource_purchases)
                       => rq.ids = "present" /\ Settled(rq.status)
                 /\ (rq.ids = "present" /\ ~Settled(rq.status))
                       => /\ UNCHANGED <<subscription_plans, resource_purchases>>
                          /\ \A r \in PaymentsTouched :
                                r.transaction_id = rq.transaction_id
      ]_vars

\* A failed event was answered 200 and left its status on the row of its
\* transaction and no row elsewhere, while an event spelled COMPLETED
\* activated a plan for another transaction.
C27_Witness ==
    /\ \E p \in Procs :
          /\ request[p].status = "failed" /\ ret[p] = "200"
          /\ \E r \in PaymentsOf(payment_transactions, request[p].transaction_id) :
                r.status = "failed"
          /\ PlansOf(subscription_plans, request[p].transaction_id) = {}
          /\ PaymentsOf(resource_purchases, request[p].transaction_id) = {}
    /\ \E r \in payment_transactions :
          /\ r.status = "COMPLETED"
          /\ PlansOf(subscription_plans, r.transaction_id) # {}

\* No secret is configured, or the verif-hash header is not the secret.
Unsigned(rq) == rq.secret = "" \/ rq.header # rq.secret

\* C28: a webhook request whose verif-hash header does not equal the
\* configured secret, or that arrives when no secret is configured, is
\* answered 401, and a signed one that lacks user_id or transaction_id is
\* answered 422; both leave payment_transactions, subscription_plans and
\* resource_purchases unchanged.
C28_RejectedUntouched ==
    [][\A p \in Procs :
          Delivery(p) =>
             LET rq == request'[p]
             IN  /\ Unsigned(rq) => ret'[p] = "401"
                 /\ (~Unsigned(rq) /\ rq.ids = "missing") => ret'[p] = "422"
                 /\ ret'[p] \in {"401", "422"}
                       => /\ Unsigned(rq) \/ rq.ids = "missing"
                          /\ UNCHANGED <<payment_transactions, subscription_plans,
                                         resource_purchases>>
      ]_vars

\* A request with a header that is not the configured secret was answered 401
\* after payments, plans and purchases had been recorded.
C28_Witness ==
    /\ \E p \in Procs :
          /\ ret[p] = "401"
          /\ request[p].secret = "s3cret" /\ request[p].header # "s3cret"
    /\ payment_transactions # {}
    /\ subscription_plans # {}
    /\ resource_purchases # {}

\* ----------------------------------------------------------- registration
\* POST /users/register answers on p (RegisterSpec: the one handler that
\* answers 201, 409 or 500 there).
Registered(p, result) ==
    pc[p] = "idle" /\ pc'[p] = "done" /\ ret'[p] = result

\* C29: registration is all-or-nothing: every user created through POST
\* /users/register has its auth_credentials row (one: user_id is the primary
\* key), a 201 adds both rows of one user, and when an insert fails, a
\* duplicate email answered with 409 included, neither a users row nor an
\* auth_credentials row is added.
C29_RegistrationAtomic ==
    [][/\ \A u \in users' : u \in auth_credentials'
       /\ \A u \in auth_credentials' : u \in users'
       /\ \A p \in Procs :
             /\ Registered(p, "201")
                   => /\ arg'[p] \notin users /\ arg'[p] \notin auth_credentials
                      /\ users' = users \cup {arg'[p]}
                      /\ auth_credentials' = auth_credentials \cup {arg'[p]}
             /\ (Registered(p, "409") \/ Registered(p, "500"))
                   => UNCHANGED <<users, auth_credentials>>
             /\ Registered(p, "409") => arg'[p] \in users
       /\ (users' # users \/ auth_credentials' # auth_credentials)
             => \E p \in Procs : Registered(p, "201")
      ]_vars

\* A user has signed up; a second sign-up with the same email was answered
\* 409 and a sign-up for another email failed with 500 and left no row.
C29_Witness ==
    /\ users # {}
    /\ \E p, q \in Procs :
          /\ ret[p] = "409" /\ arg[p] \in users
          /\ ret[q] = "500" /\ arg[q] \notin users /\ arg[q] \notin auth_credentials

============================================================================
